---------------------------- MODULE Spec2Model ----------------------------
(***************************************************************************)
(* The per-frame simulation of src/main.rs (a Bevy app): the player, the   *)
(* bullets, the enemies, the two timers, the score and the game state.     *)
(*                                                                         *)
(* Time is counted in ticks of 1/TicksPerSecond s and positions in whole   *)
(* units, so that speed * delta is an integer; f32 rounding is not         *)
(* modelled.                                                               *)
(*                                                                         *)
(* Scheduling.  main() adds the eight gameplay systems to Update as one    *)
(* tuple with a run condition and no ordering (.chain() is absent), so the *)
(* executor may run systems that touch the same data in either order.      *)
(* Commands (spawn, despawn) are deferred: they are applied when the       *)
(* Update schedule ends.  Each system is one action; `pending` holds the   *)
(* systems still to run in the frame in progress.                          *)
(***************************************************************************)
EXTENDS Integers, Sequences, FiniteSets, TLC

VARIABLES
    state,       \* GameState: "Playing" or "GameOver"
    players,     \* entities with Player + Transform, in spawn order
    bullets,     \* entities with Bullet + Transform, in spawn order
    enemies,     \* entities with Enemy + Transform, in spawn order
    score,       \* Score(u32); the runs stay far below 2^32, so no wrap is modelled
    scoreText,   \* the number shown by the ScoreText entity
    spawnTimer,  \* EnemySpawnTimer.timer
    commands,    \* deferred Commands issued in the frame in progress
    running,     \* TRUE while the Update schedule of a frame is in progress
    pending,     \* systems of the frame in progress that have not run yet
    delta,       \* Time::delta of the frame, in ticks
    keys,        \* Input<KeyCode>: the keys held in the frame
    frame,       \* number of frames started
    clock,       \* Time::elapsed: sum of the deltas, in ticks
    captions,    \* number of "Game Over!" text entities
    shotTimes,   \* history: clock value of every frame in which a Bullet was created
    discarded,   \* history: cooldown time thrown away by shoot_timer.reset(), in ticks
    staleTests   \* history: pair tests of this frame's bullet_enemy_collision on an
                 \* entity whose despawn had already been issued in the frame

vars == <<state, players, bullets, enemies, score, scoreText, spawnTimer, commands,
          running, pending, delta, keys, frame, clock, captions, shotTimes,
          discarded, staleTests>>

---------------------------------------------------------------------------
(* Bounds of the model *)

MaxFrames == 2
MaxCombatFrames == 3
MaxHeldClock == 16
MaxLongFrames == 3

\* Frame times offered by the clock, in ticks (0.1 s, 0.7 s, 1.9 s).
DeltaTicks == {1, 7, 19}
\* Frame times of the held-fire runs.
HeldDeltas == {1, 3, 5, 10}
\* Frame times of the no-input runs (1 s, 3 s, 4 s).
LongDeltas == {10, 30, 40}
\* Key sets offered by the input.
KeySets == {{}, {"Left"}, {"D", "Space"}, {"A", "Right"}}
\* Key sets of the combat runs: the player stays where setup put it.
CombatKeys == {{}, {"Space"}}
\* Values rng.gen_range(-350.0..350.0) is drawn from.
EnemyXs == {-350, 0, 20}

---------------------------------------------------------------------------
(* Program constants *)

TicksPerSecond == 10
PlayerSpeed == 300
BulletSpeed == 500
EnemySpeed == 100
ShootPeriod == 5
SpawnPeriod == 10
PlayerStartX == 0
PlayerStartY == -200
PlayerXMin == -350
PlayerXMax == 350
BulletOffsetY == 30
BulletTop == 400
EnemySpawnY == 300
EnemyBottom == -300
HitRadius == 20
ScoreStep == 10

Systems == {"player_movement", "confine_player_movement", "player_shooting",
            "bullet_movement", "spawn_enemies", "enemy_movement",
            "bullet_enemy_collision", "update_score_text"}

---------------------------------------------------------------------------
(* bevy_time::Timer in TimerMode::Repeating, as the systems use it *)

\* Mutant: a timer created with its duration already elapsed.
TimerNewElapsed(d) == [duration |-> d, elapsed |-> d, finished |-> TRUE]

\* Timer::new(duration, TimerMode::Repeating)
TimerNew(d) == [duration |-> d, elapsed |-> 0, finished |-> FALSE]

\* Mutant: a tick that restarts from zero when the timer finishes.
TimerTickRestart(t, d) ==
    LET e == t.elapsed + d
    IN  IF e >= t.duration
        THEN [t EXCEPT !.elapsed = 0, !.finished = TRUE]
        ELSE [t EXCEPT !.elapsed = e, !.finished = FALSE]

\* tick: a repeating timer that reaches its duration wraps, and reports
\* finished() for that tick only.
TimerTick(t, d) ==
    LET e == t.elapsed + d
    IN  IF e >= t.duration
        THEN [t EXCEPT !.elapsed = e % t.duration, !.finished = TRUE]
        ELSE [t EXCEPT !.elapsed = e, !.finished = FALSE]

\* Mutant: a reset that keeps the time left over by the last tick.
TimerResetKeep(t) == [t EXCEPT !.finished = FALSE]

\* reset
TimerReset(t) == [t EXCEPT !.elapsed = 0, !.finished = FALSE]

---------------------------------------------------------------------------
(* Helpers *)

\* speed * time.delta_seconds()
Displacement(speed, d) == (speed * d) \div TicksPerSecond

\* f32::clamp
Clamp(x, lo, hi) == IF x < lo THEN lo ELSE IF x > hi THEN hi ELSE x

\* Square of Vec3::distance (z is 0 on every entity).
Distance2(a, b) == (a.x - b.x) * (a.x - b.x) + (a.y - b.y) * (a.y - b.y)

\* Mutant: the distance taken on the vertical axis alone.
CollidingVertical(b, e) == (b.y - e.y) * (b.y - e.y) < HitRadius * HitRadius

\* distance < 20.0
Colliding(b, e) == Distance2(b, e) < HitRadius * HitRadius

Despawn(kind, ent, by) ==
    [op |-> "despawn", kind |-> kind, ent |-> ent, x |-> 0, y |-> 0, by |-> by]

\* Mutant: every spawned bundle carries the Player component.
SpawnPlayerCmd(kind, x, y, by) ==
    [op |-> "spawn", kind |-> "Player", ent |-> 0, x |-> x, y |-> y, by |-> by]

SpawnCmd(kind, x, y, by) ==
    [op |-> "spawn", kind |-> kind, ent |-> 0, x |-> x, y |-> y, by |-> by]

Marked(cmds, kind, ent) ==
    \E c \in cmds : c.op = "despawn" /\ c.kind = kind /\ c.ent = ent

Indices(s) == 1..Len(s)

RECURSIVE Keep(_, _, _, _)
\* The entities of s, from index i on, that no despawn command names.
Keep(s, kind, cmds, i) ==
    IF i > Len(s) THEN <<>>
    ELSE (IF Marked(cmds, kind, i) THEN <<>> ELSE <<s[i]>>) \o Keep(s, kind, cmds, i + 1)

NewBullets(cmds) ==
    LET cs == {c \in cmds : c.op = "spawn" /\ c.kind = "Bullet"}
    IN  IF cs = {} THEN <<>>
        ELSE LET c == CHOOSE c \in cs : TRUE
             IN  <<[x |-> c.x, y |-> c.y, speed |-> BulletSpeed,
                    x0 |-> c.x, y0 |-> c.y, age |-> 0]>>

\* Entities with the Player component that the deferred spawns create: a
\* bundle like the one setup spawns.
NewPlayers(cmds) ==
    LET cs == {c \in cmds : c.op = "spawn" /\ c.kind = "Player"}
    IN  IF cs = {} THEN <<>>
        ELSE LET c == CHOOSE c \in cs : TRUE
             IN  <<[x |-> c.x, y |-> c.y, speed |-> PlayerSpeed,
                    shoot_timer |-> TimerNew(ShootPeriod)]>>

NewEnemies(cmds) ==
    LET cs == {c \in cmds : c.op = "spawn" /\ c.kind = "Enemy"}
    IN  IF cs = {} THEN <<>>
        ELSE LET c == CHOOSE c \in cs : TRUE
             IN  <<[x |-> c.x, y |-> c.y, speed |-> EnemySpeed,
                    x0 |-> c.x, y0 |-> c.y, age |-> 0]>>

---------------------------------------------------------------------------
(* setup, and the state main() inserts *)

Init ==
    /\ state = "Playing"
    /\ players = <<[x |-> PlayerStartX, y |-> PlayerStartY, speed |-> PlayerSpeed,
                    shoot_timer |-> TimerNew(ShootPeriod)]>>
    /\ bullets = <<>>
    /\ enemies = <<>>
    /\ score = 0
    /\ scoreText = 0
    /\ spawnTimer = TimerNew(SpawnPeriod)
    /\ commands = {}
    /\ running = FALSE
    /\ pending = {}
    /\ delta = 0
    /\ keys = {}
    /\ frame = 0
    /\ clock = 0
    /\ captions = 0
    /\ shotTimes = <<>>
    /\ discarded = 0
    /\ staleTests = 0

---------------------------------------------------------------------------
(* The frame driver *)

\* Mutant: the run condition left out.
RunAlways == TRUE

\* .run_if(in_state(GameState::Playing))
RunCondition == state = "Playing"

\* Systems that share data run in either order.  The player systems, the
\* spawner and the bullet/enemy systems share nothing but the deferred command
\* queue, so they commute, and the model runs these three groups in turn.
Group(s) ==
    CASE s \in {"player_movement", "confine_player_movement", "player_shooting"} -> 1
      [] s = "spawn_enemies" -> 2
      [] OTHER -> 3

MayRun(s) ==
    /\ running
    /\ s \in pending
    /\ \A t \in pending : Group(t) >= Group(s)

Ran(s) == pending' = pending \ {s}

\* A frame starts: the clock and the input are read, and the Update schedule
\* starts with every system whose run condition holds.
BeginFrame(dts, keysets) ==
    /\ ~running
    /\ \E d \in dts, k \in keysets :
        /\ delta' = d
        /\ keys' = k
        /\ clock' = clock + d
    /\ frame' = frame + 1
    /\ running' = TRUE
    /\ pending' = IF RunCondition THEN Systems ELSE {}
    /\ staleTests' = 0
    /\ UNCHANGED <<state, players, bullets, enemies, score, scoreText, spawnTimer,
                   commands, captions, shotTimes, discarded>>

\* The Update schedule ends: the deferred commands are applied.
EndFrame ==
    /\ running
    /\ pending = {}
    /\ bullets' = Keep(bullets, "Bullet", commands, 1) \o NewBullets(commands)
    /\ enemies' = Keep(enemies, "Enemy", commands, 1) \o NewEnemies(commands)
    /\ players' = Keep(players, "Player", commands, 1) \o NewPlayers(commands)
    /\ commands' = {}
    /\ running' = FALSE
    /\ delta' = 0
    /\ keys' = {}
    /\ UNCHANGED <<state, score, scoreText, spawnTimer, pending, frame,
                   clock, captions, shotTimes, discarded, staleTests>>

---------------------------------------------------------------------------
(* The gameplay systems *)

LeftHeld == "Left" \in keys \/ "A" \in keys
RightHeld == "Right" \in keys \/ "D" \in keys
FireHeld == "Space" \in keys

\* direction.x after the two key tests
DirectionX == (IF LeftHeld THEN -1 ELSE 0) + (IF RightHeld THEN 1 ELSE 0)

\* if direction.length() > 0.0 { direction = direction.normalize() }
Normalize(d) == IF d > 0 THEN 1 ELSE IF d < 0 THEN -1 ELSE 0

player_movement ==
    /\ MayRun("player_movement")
    /\ Ran("player_movement")
    /\ players' =
         IF Len(players) = 1
         THEN <<[players[1] EXCEPT
                   !.x = @ + Normalize(DirectionX) * Displacement(players[1].speed, delta)]>>
         ELSE players
    /\ UNCHANGED <<state, bullets, enemies, score, scoreText, spawnTimer, commands,
                   running, delta, keys, frame, clock, captions, shotTimes,
                   discarded, staleTests>>

confine_player_movement ==
    /\ MayRun("confine_player_movement")
    /\ Ran("confine_player_movement")
    /\ players' =
         IF Len(players) = 1
         THEN <<[players[1] EXCEPT !.x = Clamp(@, PlayerXMin, PlayerXMax)]>>
         ELSE players
    /\ UNCHANGED <<state, bullets, enemies, score, scoreText, spawnTimer, commands,
                   running, delta, keys, frame, clock, captions, shotTimes,
                   discarded, staleTests>>

\* keyboard_input.pressed(KeyCode::Space) && player.shoot_timer.finished()
\* Mutant: the cooldown not consulted.
FiresAlways(t) == FireHeld

\* Mutant: the key not consulted.
FiresUnheld(t) == t.finished

Fires(t) == FireHeld /\ t.finished

\* Mutant: the shot taken from the start position without looking the Player up.
player_shooting_unchecked ==
    /\ MayRun("player_shooting")
    /\ Ran("player_shooting")
    /\ IF FireHeld
       THEN /\ commands' = commands \cup
                 {SpawnCmd("Bullet", PlayerStartX, PlayerStartY + BulletOffsetY,
                           "player_shooting")}
            /\ shotTimes' = Append(shotTimes, clock)
       ELSE UNCHANGED <<commands, shotTimes>>
    /\ UNCHANGED <<state, players, bullets, enemies, score, scoreText, spawnTimer,
                   running, delta, keys, frame, clock, captions, discarded,
                   staleTests>>

player_shooting ==
    /\ MayRun("player_shooting")
    /\ Ran("player_shooting")
    /\ IF Len(players) = 1
       THEN LET p == players[1]
                t == TimerTick(p.shoot_timer, delta)
            IN  IF Fires(t)
                THEN /\ commands' = commands \cup
                          {SpawnCmd("Bullet", p.x, p.y + BulletOffsetY, "player_shooting")}
                     /\ players' = <<[p EXCEPT !.shoot_timer = TimerReset(t)]>>
                     /\ shotTimes' = Append(shotTimes, clock)
                     /\ discarded' = discarded
                                       + (p.shoot_timer.elapsed + delta - t.duration)
                ELSE /\ players' = <<[p EXCEPT !.shoot_timer = t]>>
                     /\ UNCHANGED <<commands, shotTimes, discarded>>
       ELSE UNCHANGED <<players, commands, shotTimes, discarded>>
    /\ UNCHANGED <<state, bullets, enemies, score, scoreText, spawnTimer, running,
                   delta, keys, frame, clock, captions, staleTests>>

\* transform.translation.y += bullet.speed * time.delta_seconds()
MoveBullet(b) == [b EXCEPT !.y = @ + Displacement(b.speed, delta), !.age = @ + delta]

\* Mutant: the comparison turned round.
BulletOutInverted(b) == b.y < BulletTop

\* if transform.translation.y > 400.0
BulletOut(b) == b.y > BulletTop

bullet_movement ==
    /\ MayRun("bullet_movement")
    /\ Ran("bullet_movement")
    /\ bullets' = [i \in Indices(bullets) |-> MoveBullet(bullets[i])]
    /\ commands' = commands \cup
         {Despawn("Bullet", i, "bullet_movement") :
            i \in {j \in Indices(bullets) : BulletOut(MoveBullet(bullets[j]))}}
    /\ UNCHANGED <<state, players, enemies, score, scoreText, spawnTimer, running,
                   delta, keys, frame, clock, captions, shotTimes, discarded,
                   staleTests>>

\* Mutant: an Enemy spawned in every frame, finished or not.
spawn_enemies_ungated ==
    /\ MayRun("spawn_enemies")
    /\ Ran("spawn_enemies")
    /\ spawnTimer' = TimerTick(spawnTimer, delta)
    /\ \E x \in EnemyXs :
          commands' = commands \cup {SpawnCmd("Enemy", x, EnemySpawnY, "spawn_enemies")}
    /\ UNCHANGED <<state, players, bullets, enemies, score, scoreText, running,
                   delta, keys, frame, clock, captions, shotTimes, discarded,
                   staleTests>>

spawn_enemies ==
    /\ MayRun("spawn_enemies")
    /\ Ran("spawn_enemies")
    /\ spawnTimer' = TimerTick(spawnTimer, delta)
    /\ IF spawnTimer'.finished
       THEN \E x \in EnemyXs :
              commands' = commands \cup {SpawnCmd("Enemy", x, EnemySpawnY, "spawn_enemies")}
       ELSE UNCHANGED commands
    /\ UNCHANGED <<state, players, bullets, enemies, score, scoreText, running,
                   delta, keys, frame, clock, captions, shotTimes, discarded,
                   staleTests>>

\* transform.translation.y -= enemy.speed * time.delta_seconds()
MoveEnemy(e) == [e EXCEPT !.y = @ - Displacement(e.speed, delta), !.age = @ + delta]

\* Mutant: the bound included.
EnemyOutAtBound(e) == e.y <= EnemyBottom

\* if transform.translation.y < -300.0
EnemyOut(e) == e.y < EnemyBottom

\* Mutant: an Enemy that comes within the hit radius of the Player ends the game.
enemy_movement_ends_game ==
    /\ MayRun("enemy_movement")
    /\ Ran("enemy_movement")
    /\ enemies' = [i \in Indices(enemies) |-> MoveEnemy(enemies[i])]
    /\ commands' = commands \cup
         {Despawn("Enemy", i, "enemy_movement") :
            i \in {j \in Indices(enemies) : EnemyOut(MoveEnemy(enemies[j]))}}
    /\ state' = IF \E i \in Indices(enemies), j \in Indices(players) :
                      Distance2(MoveEnemy(enemies[i]), players[j]) < HitRadius * HitRadius
                THEN "GameOver"
                ELSE state
    /\ UNCHANGED <<players, bullets, score, scoreText, spawnTimer, running,
                   delta, keys, frame, clock, captions, shotTimes, discarded,
                   staleTests>>

enemy_movement ==
    /\ MayRun("enemy_movement")
    /\ Ran("enemy_movement")
    /\ enemies' = [i \in Indices(enemies) |-> MoveEnemy(enemies[i])]
    /\ commands' = commands \cup
         {Despawn("Enemy", i, "enemy_movement") :
            i \in {j \in Indices(enemies) : EnemyOut(MoveEnemy(enemies[j]))}}
    /\ UNCHANGED <<state, players, bullets, score, scoreText, spawnTimer, running,
                   delta, keys, frame, clock, captions, shotTimes, discarded,
                   staleTests>>

\* The body of the inner loop for bullet i and enemy j.  acc carries the command
\* queue, the score and the count of tests made on an entity already despawned.
CollisionPair(acc, i, j) ==
    LET late == Marked(acc.cmds, "Bullet", i) \/ Marked(acc.cmds, "Enemy", j)
        a == [acc EXCEPT !.stale = @ + (IF late THEN 1 ELSE 0)]
    IN  IF Colliding(bullets[i], enemies[j])
        THEN [a EXCEPT
                !.cmds = @ \cup {Despawn("Bullet", i, "bullet_enemy_collision"),
                                 Despawn("Enemy", j, "bullet_enemy_collision")},
                !.score = @ + ScoreStep]
        ELSE a

RECURSIVE CollisionLoop(_, _, _)
\* for bullet in bullet_query.iter() { for enemy in enemy_query.iter() { .. } }
CollisionLoop(acc, i, j) ==
    IF i > Len(bullets) THEN acc
    ELSE IF j > Len(enemies) THEN CollisionLoop(acc, i + 1, 1)
    ELSE CollisionLoop(CollisionPair(acc, i, j), i, j + 1)

bullet_enemy_collision ==
    /\ MayRun("bullet_enemy_collision")
    /\ Ran("bullet_enemy_collision")
    /\ LET r == CollisionLoop([cmds |-> commands, score |-> score, stale |-> 0], 1, 1)
       IN  /\ commands' = r.cmds
           /\ score' = r.score
           /\ staleTests' = r.stale
    /\ UNCHANGED <<state, players, bullets, enemies, scoreText, spawnTimer, running,
                   delta, keys, frame, clock, captions, shotTimes, discarded>>

update_score_text ==
    /\ MayRun("update_score_text")
    /\ Ran("update_score_text")
    /\ scoreText' = score
    /\ UNCHANGED <<state, players, bullets, enemies, score, spawnTimer, commands,
                   running, delta, keys, frame, clock, captions, shotTimes,
                   discarded, staleTests>>

\* Mutant: game_over run whenever the state is or becomes GameOver, not on
\* entering it only.
game_over_repeated ==
    /\ ~running
    /\ state' = "GameOver"
    /\ captions' = captions + 1
    /\ UNCHANGED <<players, bullets, enemies, score, scoreText, spawnTimer, commands,
                   running, pending, delta, keys, frame, clock, shotTimes,
                   discarded, staleTests>>

\* OnEnter(GameState::GameOver): game_over spawns the caption.  No system of the
\* program sets NextState<GameState>; the transition is requested from outside
\* and applied by the StateTransition schedule, which runs between two Updates.
game_over ==
    /\ ~running
    /\ state = "Playing"
    /\ state' = "GameOver"
    /\ captions' = captions + 1
    /\ UNCHANGED <<players, bullets, enemies, score, scoreText, spawnTimer, commands,
                   running, pending, delta, keys, frame, clock, shotTimes,
                   discarded, staleTests>>

---------------------------------------------------------------------------
(* Specifications *)

RunSystems ==
    \/ player_movement
    \/ confine_player_movement
    \/ player_shooting
    \/ bullet_movement
    \/ spawn_enemies
    \/ enemy_movement
    \/ bullet_enemy_collision
    \/ update_score_text

\* Any input, any of the frame times.
Frame == frame < MaxFrames /\ BeginFrame(DeltaTicks, KeySets)

Next == Frame \/ RunSystems \/ EndFrame \/ game_over

Spec == Init /\ [][Next]_vars

\* Fire held or not, the player never moved.
FrameCombat == frame < MaxCombatFrames /\ BeginFrame(DeltaTicks, CombatKeys)

NextCombat == FrameCombat \/ RunSystems \/ EndFrame

SpecCombat == Init /\ [][NextCombat]_vars

\* Fire held in every frame, from the initial state.
FrameHeld ==
    \E d \in HeldDeltas :
        clock + d <= MaxHeldClock /\ BeginFrame({d}, {{"Space"}})

NextHeld == FrameHeld \/ RunSystems \/ EndFrame

SpecHeld == Init /\ [][NextHeld]_vars

\* The world without a Player entity: what setup inserts, less the Player
\* bundle.  The program itself never is in it (setup runs before the first
\* Update); it is the input on which the player systems take the Err branch
\* of get_single_mut.
InitNoPlayer ==
    /\ state = "Playing"
    /\ players = <<>>
    /\ bullets = <<>>
    /\ enemies = <<>>
    /\ score = 0
    /\ scoreText = 0
    /\ spawnTimer = TimerNew(SpawnPeriod)
    /\ commands = {}
    /\ running = FALSE
    /\ pending = {}
    /\ delta = 0
    /\ keys = {}
    /\ frame = 0
    /\ clock = 0
    /\ captions = 0
    /\ shotTimes = <<>>
    /\ discarded = 0
    /\ staleTests = 0

NextNoPlayer == Frame \/ RunSystems \/ EndFrame

SpecNoPlayer == InitNoPlayer /\ [][NextNoPlayer]_vars

\* No input, long frames.
FrameLong == frame < MaxLongFrames /\ BeginFrame(LongDeltas, {{}})

NextLong == FrameLong \/ RunSystems \/ EndFrame

SpecLong == Init /\ [][NextLong]_vars

---------------------------------------------------------------------------
(* Properties *)

\* The step in which system s of the frame in progress runs.
Runs(s) == s \in pending /\ s \notin pending'

\* The step in which the deferred commands of a frame are applied.
FrameEnds == running /\ ~running'

\* Bullet-enemy pairs whose centres are closer than 20, on the positions the
\* world holds now.
ClosePairs ==
    {p \in Indices(bullets) \X Indices(enemies) :
        (bullets[p[1]].x - enemies[p[2]].x) * (bullets[p[1]].x - enemies[p[2]].x)
          + (bullets[p[1]].y - enemies[p[2]].y) * (bullets[p[1]].y - enemies[p[2]].y)
        < 400}

\* C1: at the end of every frame the player's x lies in [-350, 350].
C1_PlayerConfinedAtFrameEnd ==
    ~running => \A i \in Indices(players) : players[i].x >= -350 /\ players[i].x <= 350

C3_BulletScoresOnce ==
    [][Runs("bullet_enemy_collision") =>
         score' - score <= 10 * Cardinality({p[1] : p \in ClosePairs})]_vars

\* C4: the collision system makes no pair test on a Bullet or Enemy whose
\* despawn was issued earlier in the same frame.
C4_NoTestAfterDespawn == staleTests = 0

\* C7: once GameState is GameOver, no step creates a Bullet or an Enemy, moves
\* an entity, ticks a timer, or changes Score or its text.
C7_GameOverFreezes ==
    [][state = "GameOver" =>
         UNCHANGED <<players, bullets, enemies, score, scoreText, spawnTimer,
                     commands, shotTimes>>]_vars

\* C7 witness: a frame in progress after GameOver, with Fire held and a Bullet
\* and an Enemy in the world.
C7_Witness ==
    /\ state = "GameOver"
    /\ running
    /\ FireHeld
    /\ delta > 0
    /\ bullets # <<>>
    /\ enemies # <<>>

C6_TwoBulletsFromStart ==
    ~running =>
      /\ frame >= 1 => Len(shotTimes) >= 1
      /\ clock = 10 => Len(shotTimes) = 2

\* C6 amended: holding Fire from the initial state, the first Bullet is created
\* in the first frame at whose end 0.5 s have passed and none before, the
\* second at least 0.5 s after the first; after 1.0 s there are 1 or 2 Bullets,
\* and with frames of 0.1 s exactly 2, created at t = 0.5 s and t = 1.0 s.
C6_BulletsInFirstSecond ==
    ~running =>
      /\ Len(shotTimes) >= 1 => shotTimes[1] >= 5
      /\ clock >= 5 => Len(shotTimes) >= 1
      /\ Len(shotTimes) >= 2 => shotTimes[2] - shotTimes[1] >= 5
      /\ clock = 10 => Len(shotTimes) \in {1, 2}
      /\ (clock = 10 /\ frame = 10) => shotTimes = <<5, 10>>

\* C6 witness: ten frames of 0.1 s with Fire held, Bullets at 0.5 s and 1.0 s.
C6_Witness == ~running /\ frame = 10 /\ shotTimes = <<5, 10>>

\* Entity i of s is still in the world after the step.
SurvivesIn(s, t, i) == \E k \in 1..Len(t) : t[k] = s[i]

HitMarked(kind, i) ==
    \E c \in commands :
        c.op = "despawn" /\ c.kind = kind /\ c.ent = i /\ c.by = "bullet_enemy_collision"

\* C8: a Bullet is at y0 + 500 * t, t being the time applied to it; one that
\* hit no enemy leaves the world at the end of the frame that moved it above
\* 400 and not before, so no Bullet above 400 is left when a frame has ended.
C8_BulletCulledAboveTop ==
    /\ [](\A i \in Indices(bullets) :
            bullets[i].y = bullets[i].y0 + (500 * bullets[i].age) \div 10)
    /\ [](~running => \A i \in Indices(bullets) : bullets[i].y <= 400)
    /\ [][FrameEnds =>
            \A i \in Indices(bullets) :
                ~HitMarked("Bullet", i) =>
                    (SurvivesIn(bullets, bullets', i) <=> bullets[i].y <= 400)]_vars

\* C8 witness: every system of the frame has run and bullet_movement has
\* issued the despawn of a Bullet.
C8_Witness ==
    /\ running
    /\ pending = {}
    /\ \E c \in commands : c.op = "despawn" /\ c.by = "bullet_movement"

\* C9: an Enemy keeps its x and is at 300 - 100 * t, t being the time applied
\* to it; one that no bullet hit leaves the world at the end of the frame that
\* moved it below -300 and not before; spawned at (0, 300), it is at (0, 0)
\* and in the world after 3 s.
C9_EnemyDescends ==
    /\ [](\A i \in Indices(enemies) :
            /\ enemies[i].x = enemies[i].x0
            /\ enemies[i].y = 300 - (100 * enemies[i].age) \div 10
            /\ (enemies[i].x0 = 0 /\ enemies[i].age = 30) =>
                   (enemies[i].x = 0 /\ enemies[i].y = 0))
    /\ [](~running => \A i \in Indices(enemies) : enemies[i].y >= -300)
    /\ [][FrameEnds =>
            \A i \in Indices(enemies) :
                ~HitMarked("Enemy", i) =>
                    (SurvivesIn(enemies, enemies', i) <=> enemies[i].y >= -300)]_vars

\* C9 witness: three frames have ended, each spawned an Enemy, one Enemy has
\* been culled, and an Enemy spawned at (0, 300) is at (0, 0) after 3 s.
C9_Witness ==
    /\ ~running
    /\ frame = 3
    /\ Len(enemies) = 2
    /\ \E i \in Indices(enemies) :
         enemies[i].x0 = 0 /\ enemies[i].age = 30 /\ enemies[i].y = 0

\* Time the spawn timer has been given: the clock, less the delta of the frame
\* in progress while spawn_enemies has not ticked it yet.
SpawnTimerFed ==
    IF running /\ "spawn_enemies" \in pending THEN clock - delta ELSE clock

\* C10: the repeating spawn timer (D = 1.0 s, never reset) holds the time fed
\* to it modulo D and reports finished() in exactly the ticks in which that
\* time reaches or passes a multiple of D; right after reset() the shoot timer
\* is not finished and holds no time; tick and reset leave both durations as
\* they were set.
C10_RepeatingTimer ==
    /\ [](/\ spawnTimer.duration = 10
          /\ \A i \in Indices(players) : players[i].shoot_timer.duration = 5)
    /\ [](spawnTimer.elapsed = SpawnTimerFed % 10)
    /\ []((running /\ "spawn_enemies" \notin pending) =>
            (spawnTimer.finished <=> clock \div 10 > (clock - delta) \div 10))
    /\ [][Len(shotTimes') > Len(shotTimes) =>
            /\ ~players'[1].shoot_timer.finished
            /\ players'[1].shoot_timer.elapsed = 0]_vars

\* C10 witness: the spawn timer has just finished for the second time or
\* later, with time left over, and the shoot timer has been reset before.
C10_Witness ==
    /\ running
    /\ "spawn_enemies" \notin pending
    /\ spawnTimer.finished
    /\ spawnTimer.elapsed > 0
    /\ clock > 20
    /\ Len(shotTimes) >= 1

\* C11: in every state after setup exactly one Player entity exists, and no
\* system issues a command that creates or destroys one.
C11_OnePlayer ==
    /\ Len(players) = 1
    /\ \A c \in commands : c.kind # "Player"

\* C11 witness: three frames have ended, with a Bullet fired, an Enemy hit and
\* the pair despawned, and the Player is still there.
C11_Witness == ~running /\ frame = 3 /\ score >= 10 /\ Len(players) = 1

\* C12: with no Player entity in the world, player_movement,
\* confine_player_movement and player_shooting change nothing and no Bullet is
\* ever created, while the spawn timer is ticked in every frame, Enemies are
\* spawned and every Enemy is moved by enemy_movement.
C12_NoPlayerNoOp ==
    /\ [](/\ players = <<>>
          /\ bullets = <<>>
          /\ shotTimes = <<>>
          /\ \A c \in commands : c.kind = "Enemy")
    /\ [][(Runs("player_movement") \/ Runs("confine_player_movement")
             \/ Runs("player_shooting")) =>
            UNCHANGED <<state, players, bullets, enemies, score, scoreText,
                        spawnTimer, commands, shotTimes, discarded>>]_vars
    /\ [](spawnTimer.elapsed =
            (IF running /\ "spawn_enemies" \in pending THEN clock - delta ELSE clock) % 10)
    /\ [][Runs("enemy_movement") =>
            \A i \in Indices(enemies) : enemies'[i].y = enemies[i].y - 10 * delta]_vars

\* C12 witness: no Player, every system of a frame with Fire held has run, the
\* frame was long enough for a shot, and an Enemy spawned earlier was moved.
C12_Witness ==
    /\ players = <<>>
    /\ running
    /\ pending = {}
    /\ FireHeld
    /\ delta >= 5
    /\ \E i \in Indices(enemies) : enemies[i].age > 0

\* C13: in every frame the systems run in the one order movement, clamping
\* and culling, spawning, collision, score sync: the clamp after the player's
\* move, the shot after the clamp, the collision tests after both movement
\* systems, and the score text after the collision tests.
C13_FixedSystemOrder ==
    [][/\ Runs("confine_player_movement") => "player_movement" \notin pending
       /\ Runs("player_shooting") => "confine_player_movement" \notin pending
       /\ Runs("bullet_enemy_collision") =>
            ("bullet_movement" \notin pending /\ "enemy_movement" \notin pending)
       /\ Runs("update_score_text") => "bullet_enemy_collision" \notin pending]_vars

\* C14: the "Game Over!" caption is created once, in the step that enters
\* GameOver: there is none while Playing, exactly one ever after, and GameOver
\* is never left.
C14_CaptionOnce ==
    /\ [](captions = IF state = "GameOver" THEN 1 ELSE 0)
    /\ [][captions' # captions =>
            (state = "Playing" /\ state' = "GameOver" /\ captions' = captions + 1)]_vars
    /\ [][state = "GameOver" => state' = "GameOver"]_vars

\* C14 witness: GameOver was entered before the first frame (the spawn timer
\* was never ticked), two frames have run since, and there is one caption.
C14_Witness ==
    /\ state = "GameOver"
    /\ ~running
    /\ frame = 2
    /\ clock > 0
    /\ spawnTimer.elapsed = 0
    /\ ~spawnTimer.finished
    /\ captions = 1

\* C15: spawn_enemies issues the spawn of exactly one Enemy, at y = 300 and x
\* in [-350, 350), in a frame in which the spawn timer reports finished() and
\* none in any other; it never resets the timer, which carries its remainder
\* on; the Enemy enters the world when that frame ends, with speed 100.
C15_OneEnemyPerFinish ==
    /\ [][Runs("spawn_enemies") =>
            LET new == {c \in commands' \ commands : c.op = "spawn" /\ c.kind = "Enemy"}
            IN  /\ Cardinality(new) = (IF spawnTimer'.finished THEN 1 ELSE 0)
                /\ \A c \in new : c.y = 300 /\ c.x >= -350 /\ c.x < 350
                /\ spawnTimer'.elapsed = (spawnTimer.elapsed + delta) % 10]_vars
    /\ [][(FrameEnds /\ state = "Playing") =>
            /\ Len(NewEnemies(commands)) = (IF spawnTimer.finished THEN 1 ELSE 0)
            /\ Cardinality({i \in Indices(enemies') : enemies'[i].age = 0})
                 = Len(NewEnemies(commands))]_vars
    /\ [](\A i \in Indices(enemies) :
            /\ enemies[i].y0 = 300
            /\ enemies[i].x0 >= -350 /\ enemies[i].x0 < 350
            /\ enemies[i].speed = 100)

\* C15 witness: spawn_enemies has run in a frame in which the timer did not
\* finish, after two frames in which it did.
C15_Witness ==
    /\ running
    /\ "spawn_enemies" \notin pending
    /\ ~spawnTimer.finished
    /\ Len(enemies) = 2

\* C16: two consecutive Bullet creations are at least 0.5 s of accumulated
\* frame time apart, whatever the keys and frame times, and one run of
\* player_shooting creates at most one Bullet.
C16_MinSeparation ==
    /\ [](\A i \in 1..(Len(shotTimes) - 1) :
            shotTimes[i + 1] - shotTimes[i] >= 5)
    /\ [][Len(shotTimes') <= Len(shotTimes) + 1]_vars
    /\ [][(FrameEnds /\ state = "Playing") =>
            /\ Len(NewBullets(commands)) <= 1
            /\ Cardinality({i \in Indices(bullets') : bullets'[i].age = 0}) <= 1]_vars

\* C16 witness: two Bullets created 0.7 s apart.
C16_Witness ==
    /\ Len(shotTimes) = 2
    /\ shotTimes[2] - shotTimes[1] = 7

\* C17: a run of player_shooting with Fire released creates no Bullet; a run
\* that creates one creates exactly one, with Fire held and with the cooldown
\* expiring in that very tick, so that an expiry passed with Fire released
\* leaves nothing behind to be fired later.
C17_NoShotUnheld ==
    /\ [][Runs("player_shooting") =>
            LET new == {c \in commands' \ commands : c.op = "spawn" /\ c.kind = "Bullet"}
            IN  /\ ~FireHeld => (new = {} /\ shotTimes' = shotTimes)
                /\ Cardinality(new) <= 1
                /\ new # {} =>
                     /\ FireHeld
                     /\ Len(shotTimes') = Len(shotTimes) + 1
                     /\ players[1].shoot_timer.elapsed + delta >= 5]_vars
    /\ [][(FrameEnds /\ state = "Playing") =>
            (~FireHeld =>
               /\ NewBullets(commands) = <<>>
               /\ \A i \in Indices(bullets') : bullets'[i].age # 0)]_vars

\* C17 witness: the cooldown expired in a frame with Fire released, and in a
\* later frame with Fire held player_shooting has run without a Bullet.
C17_Witness ==
    /\ running
    /\ "player_shooting" \notin pending
    /\ FireHeld
    /\ shotTimes = <<>>
    /\ clock - delta >= 5
    /\ \A c \in commands : c.kind # "Bullet"

\* C18: every Bullet was created at y = -170 with speed 500, keeps the x it
\* was created with, and that x lies in [-350, 350].
C18_BulletAtPlayerX ==
    \A i \in Indices(bullets) :
        /\ bullets[i].y0 = -170
        /\ bullets[i].speed = 500
        /\ bullets[i].x = bullets[i].x0
        /\ bullets[i].x >= -350 /\ bullets[i].x <= 350

\* Bullet-enemy pairs whose centres are closer than 20 once bullet_movement and
\* enemy_movement have moved them in this frame.
MovedClosePairs ==
    {p \in Indices(bullets) \X Indices(enemies) :
        Colliding(MoveBullet(bullets[p[1]]), MoveEnemy(enemies[p[2]]))}

C20_StaysPlaying == state = "Playing"

\* C20 witness: three frames have ended and an Enemy stands exactly on the
\* Player.
C20_Witness ==
    /\ ~running
    /\ frame = 3
    /\ state = "Playing"
    /\ \E i \in Indices(enemies) :
         enemies[i].x = players[1].x /\ enemies[i].y = players[1].y

==========================================================================
